---- MODULE Spec2Model ----
(***************************************************************************)
(* Month-grid construction, event normalisation, week-segment / slot       *)
(* allocation and pill drawing of                                          *)
(* CalendarImageGenerator.generate_month_image (src/image_generator.py),   *)
(* the sample events of src/test_image_generator.py and the                *)
(* change-detection poller of src/main.py.                                 *)
(*                                                                         *)
(* A calendar date is its proleptic Gregorian ordinal (datetime.date's     *)
(* toordinal): date arithmetic (date - date).days and date + timedelta are *)
(* integer subtraction and addition on ordinals, comparison is <.          *)
(* Loop counters pi, ei, wi are 0-based as in Python; TLA+ sequences are   *)
(* 1-based, so element i of a list is seq[i + 1].                          *)
(***************************************************************************)
EXTENDS Integers, Sequences, FiniteSets, TLC

VARIABLES year, month, events, pc, month_weeks, prepared_events,
          week_segments, log_dropped, pi, ei, wi,
          width, height, TITLE_FORMAT, draw_seg, pill, text,
          history, renders,
          last_calendar_etag, current_etag, posted, runs

vars == <<year, month, events, pc, month_weeks, prepared_events,
          week_segments, log_dropped, pi, ei, wi,
          width, height, TITLE_FORMAT, draw_seg, pill, text,
          history, renders,
          last_calendar_etag, current_etag, posted, runs>>

\* the configuration: self.width, self.height, Config.TITLE_FORMAT
config_vars == <<width, height, TITLE_FORMAT>>

\* the draw loop: the segment drawn, its pill rectangle and its text
draw_vars == <<draw_seg, pill, text>>

\* the renders made so far (inputs and results) and their number
render_vars == <<history, renders>>

\* the change-detection poller of main.py
poll_vars == <<last_calendar_etag, current_etag, posted, runs>>

\* the state outside the grid / normalisation / segmentation part of a call
outer_vars == <<config_vars, draw_vars, render_vars, poll_vars>>

(***************************************************************************)
(* Bounds of the explored inputs.                                          *)
(***************************************************************************)
\* longest raw event list of the layout specification
MaxEvents == 4
\* first year and number of years of the grid specification
MinYear == 2000
NumYears == 28
\* days before the 1st / after the last day that raw dates of the
\* normalisation specification may reach
Margin == 3
\* how far below 1 and above 12 the months of the invalid-month
\* specification reach, and its longest raw event list
MonthMargin == 2
MaxMonthEvents == 2
\* longest raw event list of the specification of crowded week rows
MaxDense == 5
\* most check_calendar_updates runs of one process
MaxRuns == 8
\* most generate_month_image calls of one process
MaxRenders == 3
\* longest raw event list of the specification with malformed events
MaxMixed == 3
\* longest event title and widest day column of the drawing specification
MaxTitleLen == 24
MaxDayWidth == 60

(***************************************************************************)
(* Program constants.                                                      *)
(***************************************************************************)
\* calendar.Calendar(firstweekday=6): weeks start on Sunday (Mon=0..Sun=6)
firstweekday == 6
\* find_slot(..., max_slots=3)
max_slots == 3
\* find_slot's "no slot" result (Python None)
None == -1
\* the value None of an etag (a string no etag equals)
NoneEtag == "<None>"
\* Config.IMAGE_WIDTH, Config.IMAGE_HEIGHT (defaults)
IMAGE_WIDTH == 1200
IMAGE_HEIGHT == 1400
\* layout constants of generate_month_image
title_y == 40
grid_x == 40
header_height == 50
padding_x == 6
min_width == 40
max_chars == 20

(***************************************************************************)
(* datetime.date / calendar arithmetic used by the source.                 *)
(***************************************************************************)
isleap(y) == (y % 4 = 0) /\ ((y % 100 # 0) \/ (y % 400 = 0))

mdays(m) == CASE m = 2 -> 28
              [] m \in {4, 6, 9, 11} -> 30
              [] OTHER -> 31

DaysInMonth(y, m) == mdays(m) + (IF m = 2 /\ isleap(y) THEN 1 ELSE 0)

DaysBeforeYear(y) ==
    (y - 1) * 365 + ((y - 1) \div 4) - ((y - 1) \div 100) + ((y - 1) \div 400)

RECURSIVE DaysBeforeMonth(_, _)
DaysBeforeMonth(y, m) ==
    IF m = 1 THEN 0 ELSE DaysBeforeMonth(y, m - 1) + DaysInMonth(y, m - 1)

\* date(y, m, d) as an ordinal
date(y, m, d) == DaysBeforeYear(y) + DaysBeforeMonth(y, m) + d

\* date.weekday(): Monday = 0 .. Sunday = 6
weekday(d) == (d + 6) % 7

Max2(a, b) == IF a >= b THEN a ELSE b
Min2(a, b) == IF a <= b THEN a ELSE b

(***************************************************************************)
(* Python values of an event's 'start' / 'end' and _to_date (lines 20-37). *)
(* A value is a record tagged with its type; a str carries the sequence of *)
(* its characters.  The ISO formats read are those every Python 3.7+       *)
(* accepts: YYYY-MM-DD, optionally followed by a separator character and   *)
(* HH:MM, HH:MM:SS or HH:MM:SS+HH:MM.                                      *)
(***************************************************************************)
PyDate(d) == [type |-> "date", ordinal |-> d]

PyDatetime(d, h) == [type |-> "datetime", ordinal |-> d, hour |-> h]

PyStr(chars) == [type |-> "str", chars |-> chars]

PyNone == [type |-> "NoneType"]

PyInt(n) == [type |-> "int", value |-> n]

\* ev.get(key): None when the key is missing
Get(ev, key) == IF key \in DOMAIN ev THEN ev[key] ELSE PyNone

IsDigit(c) == c \in {"0", "1", "2", "3", "4", "5", "6", "7", "8", "9"}

Digit(c) == CASE c = "0" -> 0 [] c = "1" -> 1 [] c = "2" -> 2 [] c = "3" -> 3
              [] c = "4" -> 4 [] c = "5" -> 5 [] c = "6" -> 6 [] c = "7" -> 7
              [] c = "8" -> 8 [] c = "9" -> 9

\* the number written by the two digits at positions i, i + 1
TwoDigits(chars, i) == 10 * Digit(chars[i]) + Digit(chars[i + 1])

IsTwoDigits(chars, i) == IsDigit(chars[i]) /\ IsDigit(chars[i + 1])

\* the first 10 characters are YYYY-MM-DD and name a date that exists
IsIsoDate(chars) ==
    /\ Len(chars) >= 10
    /\ \A i \in {1, 2, 3, 4, 6, 7, 9, 10} : IsDigit(chars[i])
    /\ chars[5] = "-" /\ chars[8] = "-"
    /\ LET y == 100 * TwoDigits(chars, 1) + TwoDigits(chars, 3)
           m == TwoDigits(chars, 6)
           d == TwoDigits(chars, 9)
       IN y >= 1 /\ m \in 1..12 /\ d \in 1..DaysInMonth(y, m)

\* characters i.. are HH:MM or HH:MM:SS, optionally followed by +HH:MM
IsIsoTime(chars, i) ==
    LET n == Len(chars) - i + 1
        hm == /\ IsTwoDigits(chars, i) /\ TwoDigits(chars, i) < 24
              /\ chars[i + 2] = ":"
              /\ IsTwoDigits(chars, i + 3) /\ TwoDigits(chars, i + 3) < 60
        sec == /\ chars[i + 5] = ":"
               /\ IsTwoDigits(chars, i + 6) /\ TwoDigits(chars, i + 6) < 60
        off == /\ chars[i + 8] \in {"+", "-"}
               /\ IsTwoDigits(chars, i + 9) /\ TwoDigits(chars, i + 9) < 24
               /\ chars[i + 11] = ":"
               /\ IsTwoDigits(chars, i + 12) /\ TwoDigits(chars, i + 12) < 60
    IN \/ n = 5 /\ hm
       \/ n = 8 /\ hm /\ sec
       \/ n = 14 /\ hm /\ sec /\ off

\* date.fromisoformat(chars) succeeds
date_fromisoformat_ok(chars) == Len(chars) = 10 /\ IsIsoDate(chars)

\* datetime.fromisoformat(chars) succeeds
datetime_fromisoformat_ok(chars) ==
    /\ IsIsoDate(chars)
    /\ Len(chars) = 10 \/ (Len(chars) > 11 /\ IsIsoTime(chars, 12))

\* the date written by the first 10 characters
iso_date(chars) ==
    date(100 * TwoDigits(chars, 1) + TwoDigits(chars, 3),
         TwoDigits(chars, 6), TwoDigits(chars, 9))

\* _to_date(obj) raises (TypeError for an unsupported type, ValueError for
\* a string that is no ISO date or datetime)
to_date_raises(obj) ==
    CASE obj.type = "date" -> FALSE
      [] obj.type = "datetime" -> FALSE
      [] obj.type = "str" -> ~date_fromisoformat_ok(obj.chars)
                                /\ ~datetime_fromisoformat_ok(obj.chars)
      [] OTHER -> TRUE

\* the date _to_date(obj) returns when it does not raise
_to_date(obj) ==
    CASE obj.type = "date" -> obj.ordinal
      [] obj.type = "datetime" -> obj.ordinal
      [] obj.type = "str" -> iso_date(obj.chars)

(***************************************************************************)
(* _prepare_events: month bounds and the per-event normalisation.          *)
(***************************************************************************)
first_of_month(y, m) == date(y, m, 1)

first_next_month(y, m) == IF m = 12 THEN date(y + 1, 1, 1) ELSE date(y, m + 1, 1)

last_of_month(y, m) == first_next_month(y, m) - 1

\* mutant of e_inclusive: one day is subtracted also from a single-day event
e_inclusive_always(s, e) == e - 1

\* mutant of e_inclusive: the exclusive end is never converted
e_inclusive_kept(s, e) == e

\* "if e > s: e_inclusive = e - timedelta(days=1) else: e_inclusive = e"
e_inclusive(s, e) == IF e > s THEN e - 1 ELSE e

\* mutant of prepare_one: a date that cannot be read falls back to the first
\* day of the month instead of the event being skipped
prepare_one_fallback(prepared, ev, y, m) ==
    LET s == IF to_date_raises(Get(ev, "start")) THEN first_of_month(y, m)
             ELSE _to_date(Get(ev, "start"))
        e == IF to_date_raises(Get(ev, "end")) THEN first_of_month(y, m)
             ELSE _to_date(Get(ev, "end"))
        ev_start == Max2(s, first_of_month(y, m))
        ev_end == Min2(e_inclusive(s, e), last_of_month(y, m))
    IN IF ev_start <= last_of_month(y, m) /\ ev_end >= first_of_month(y, m)
       THEN Append(prepared, [start_date |-> ev_start, end_date |-> ev_end])
       ELSE prepared

\* the list `prepared` after the loop body has run on raw event ev: an event
\* whose start or end _to_date rejects is skipped (lines 119-124)
prepare_one(prepared, ev, y, m) ==
    LET s == _to_date(Get(ev, "start"))
        e == _to_date(Get(ev, "end"))
        ev_start == Max2(s, first_of_month(y, m))
        ev_end == Min2(e_inclusive(s, e), last_of_month(y, m))
    IN IF to_date_raises(Get(ev, "start")) \/ to_date_raises(Get(ev, "end"))
       THEN prepared
       ELSE IF ev_start <= last_of_month(y, m) /\ ev_end >= first_of_month(y, m)
       THEN Append(prepared, [start_date |-> ev_start, end_date |-> ev_end])
       ELSE prepared

(***************************************************************************)
(* calendar.Calendar(firstweekday=6).monthdatescalendar(year, month):      *)
(* the weeks of the month as rows of 7 dates, padded with the days of the  *)
(* adjacent months (itermonthdays: days_before, ndays, days_after).        *)
(***************************************************************************)
\* mutant of monthdatescalendar: calendar.Calendar() with its default
\* firstweekday=0, weeks starting on Monday
monthdatescalendar_monday(y, m) ==
    LET day1 == weekday(date(y, m, 1))
        ndays == DaysInMonth(y, m)
        days_before == (day1 - 0) % 7
        days_after == (0 - day1 - ndays) % 7
        start == date(y, m, 1) - days_before
        nweeks == (days_before + ndays + days_after) \div 7
    IN [w \in 1..nweeks |-> [c \in 1..7 |-> start + 7 * (w - 1) + (c - 1)]]

\* mutant of monthdatescalendar: a grid of always 6 week rows
monthdatescalendar_six_rows(y, m) ==
    LET day1 == weekday(date(y, m, 1))
        days_before == (day1 - firstweekday) % 7
        start == date(y, m, 1) - days_before
    IN [w \in 1..6 |-> [c \in 1..7 |-> start + 7 * (w - 1) + (c - 1)]]

monthdatescalendar(y, m) ==
    LET day1 == weekday(date(y, m, 1))
        ndays == DaysInMonth(y, m)
        days_before == (day1 - firstweekday) % 7
        days_after == (firstweekday - day1 - ndays) % 7
        start == date(y, m, 1) - days_before
        nweeks == (days_before + ndays + days_after) \div 7
    IN [w \in 1..nweeks |-> [c \in 1..7 |-> start + 7 * (w - 1) + (c - 1)]]

(***************************************************************************)
(* find_slot: first slot of the week none of whose segments overlaps       *)
(* [start_col, end_col]; None when every slot is taken.                    *)
(***************************************************************************)
\* mutant of overlap: ">" written ">=" (ranges sharing one column pass as disjoint)
overlap_off_by_one(seg, start_col, end_col) ==
    ~(end_col < seg.start_col \/ start_col >= seg.end_col)

\* "not (end_col < seg['start_col'] or start_col > seg['end_col'])"
overlap(seg, start_col, end_col) ==
    ~(end_col < seg.start_col \/ start_col > seg.end_col)

\* mutant of slot_overlap: only the segment placed last is examined
slot_overlap_last_only(segments_for_week, slot, start_col, end_col) ==
    /\ Len(segments_for_week) > 0
    /\ segments_for_week[Len(segments_for_week)].slot = slot
    /\ overlap(segments_for_week[Len(segments_for_week)], start_col, end_col)

slot_overlap(segments_for_week, slot, start_col, end_col) ==
    \E i \in 1..Len(segments_for_week) :
        /\ segments_for_week[i].slot = slot
        /\ overlap(segments_for_week[i], start_col, end_col)

RECURSIVE find_slot_from(_, _, _, _, _)
find_slot_from(segments_for_week, start_col, end_col, maxslots, slot) ==
    IF slot >= maxslots THEN None
    ELSE IF ~slot_overlap(segments_for_week, slot, start_col, end_col) THEN slot
    ELSE find_slot_from(segments_for_week, start_col, end_col, maxslots, slot + 1)

\* mutant of find_slot: the highest free slot instead of the lowest
find_slot_highest(segments_for_week, start_col, end_col, maxslots) ==
    LET free == { k \in 0..(maxslots - 1) :
                    ~slot_overlap(segments_for_week, k, start_col, end_col) }
    IN IF free = {} THEN None ELSE CHOOSE k \in free : \A j \in free : j <= k

\* mutant of find_slot: when no slot is free the segment is put in the last
\* slot instead of being dropped
find_slot_overflow(segments_for_week, start_col, end_col, maxslots) ==
    LET slot == find_slot_from(segments_for_week, start_col, end_col, maxslots, 0)
    IN IF slot = None THEN maxslots - 1 ELSE slot

find_slot(segments_for_week, start_col, end_col, maxslots) ==
    find_slot_from(segments_for_week, start_col, end_col, maxslots, 0)

(***************************************************************************)
(* Drawing of one segment (lines 305-352): the pill rectangle and the      *)
(* displayed text.  A title is the sequence of its characters.             *)
(***************************************************************************)
grid_start_y == title_y + 80

grid_height(h) == h - grid_start_y - 40

grid_width(w) == w - 80

day_width(w) == grid_width(w) \div 7

calendar_start_y == grid_start_y + header_height + 10

cell_height(h, max_weeks) ==
    (grid_height(h) - header_height - 10) \div Max2(6, max_weeks)

\* mutant of pill_rect: the minimum width is applied to the left edge only
pill_rect_left_only(sg, w_i, w, h, max_weeks) ==
    LET pill_top == (calendar_start_y + w_i * cell_height(h, max_weeks))
                        + 32 + sg.slot * 34
        pill_bottom == pill_top + 28
        pill_left == grid_x + sg.start_col * day_width(w) + padding_x
        pill_right == grid_x + (sg.end_col + 1) * day_width(w) - padding_x
        center == (pill_left + pill_right) \div 2
    IN IF pill_right - pill_left < min_width
       THEN [left |-> center - min_width \div 2, top |-> pill_top,
             right |-> pill_right, bottom |-> pill_bottom]
       ELSE [left |-> pill_left, top |-> pill_top,
             right |-> pill_right, bottom |-> pill_bottom]

\* lines 312-336: (pill_left, pill_top, pill_right, pill_bottom) of segment
\* sg in week row w_i, for an image w wide and h high
pill_rect(sg, w_i, w, h, max_weeks) ==
    LET pill_top == (calendar_start_y + w_i * cell_height(h, max_weeks))
                        + 32 + sg.slot * 34
        pill_bottom == pill_top + 28
        pill_left == grid_x + sg.start_col * day_width(w) + padding_x
        pill_right == grid_x + (sg.end_col + 1) * day_width(w) - padding_x
        center == (pill_left + pill_right) \div 2
    IN IF pill_right - pill_left < min_width
       THEN [left |-> center - min_width \div 2, top |-> pill_top,
             right |-> center + min_width \div 2, bottom |-> pill_bottom]
       ELSE [left |-> pill_left, top |-> pill_top,
             right |-> pill_right, bottom |-> pill_bottom]

\* mutant of display_text: the dots are appended to the first max_chars
\* characters
display_text_long(summary) ==
    IF Len(summary) > max_chars
    THEN SubSeq(summary, 1, max_chars) \o <<".", ".", ".">>
    ELSE summary

\* lines 343-346: text = summary, cut to text[:max_chars - 3] + "..."
display_text(summary) ==
    IF Len(summary) > max_chars
    THEN SubSeq(summary, 1, max_chars - 3) \o <<".", ".", ".">>
    ELSE summary

(***************************************************************************)
(* Inputs.                                                                 *)
(***************************************************************************)
RawEvent(s, e) == [start |-> PyDate(s), end |-> PyDate(e)]

\* raw events of the layout specification, as day offsets from the 1st:
\* <<start offset, end offset>> (the end is exclusive when end > start)
LayoutOffsets ==
    { <<4, 4>>,      \* single day 5
      <<4, 6>>,      \* days 5..6 (raw end day 7, exclusive)
      <<3, 6>>,      \* days 4..6
      <<4, 9>>,      \* days 5..9: crosses a week boundary
      <<8, 8>>,      \* single day 9
      <<-2, 2>> }    \* starts in the previous month, days 1..2 after clipping

LayoutMonths == { <<2025, 9>>, <<2026, 2>> }

LayoutPool(y, m) ==
    { RawEvent(first_of_month(y, m) + o[1], first_of_month(y, m) + o[2]) :
        o \in LayoutOffsets }

SeqsUpTo(S, n) == UNION { [1..k -> S] : k \in 0..n }

\* no segment is being drawn
DrawIdle ==
    /\ draw_seg = [start_col |-> 0, end_col |-> 0, slot |-> 0, summary |-> <<>>]
    /\ pill = [left |-> 0, top |-> 0, right |-> 0, bottom |-> 0]
    /\ text = <<>>

\* Config defaults (src/config.py)
DefaultConfig ==
    /\ width = IMAGE_WIDTH
    /\ height = IMAGE_HEIGHT
    /\ TITLE_FORMAT = "english"

\* the first render of the process
FirstRender ==
    /\ history = <<>>
    /\ renders = 1

\* main.py line 42: last_calendar_etag = None; no poll has run
PollIdle ==
    /\ last_calendar_etag = NoneEtag
    /\ current_etag = NoneEtag
    /\ posted = 0
    /\ runs = 0

(***************************************************************************)
(* State machine of one generate_month_image(year, month, events) call.    *)
(***************************************************************************)
StartCall(y, m, evs) ==
    /\ year = y
    /\ month = m
    /\ events = evs
    /\ pc = "grid"
    /\ month_weeks = <<>>
    /\ prepared_events = <<>>
    /\ week_segments = <<>>
    /\ log_dropped = <<>>
    /\ pi = 0
    /\ ei = 0
    /\ wi = 0
    /\ DrawIdle
    /\ FirstRender
    /\ PollIdle

Init ==
    \E ym \in LayoutMonths :
        \E evs \in SeqsUpTo(LayoutPool(ym[1], ym[2]), MaxEvents) :
            StartCall(ym[1], ym[2], evs) /\ DefaultConfig

\* lines 164-212 for a month 1..12: the title text is formatted and
\* month_weeks = cal.monthdatescalendar(year, month)
BuildMonthGrid ==
    /\ pc = "grid"
    /\ month \in 1..12
    /\ month_weeks' = monthdatescalendar(year, month)
    /\ pc' = "prepare"
    /\ UNCHANGED <<year, month, events, prepared_events, week_segments,
                   log_dropped, pi, ei, wi>>
    /\ UNCHANGED outer_vars

\* lines 117-148: one iteration of "for ev in events" of _prepare_events
\* (line 109, date(year, month, 1), has not raised)
PrepareEvent ==
    /\ pc = "prepare"
    /\ month \in 1..12
    /\ pi < Len(events)
    /\ prepared_events' = prepare_one(prepared_events, events[pi + 1], year, month)
    /\ pi' = pi + 1
    /\ UNCHANGED <<year, month, events, pc, month_weeks, week_segments,
                   log_dropped, ei, wi>>
    /\ UNCHANGED outer_vars

\* lines 149, 218-222: _prepare_events returns; week_segments = [[] ...]
PrepareReturn ==
    /\ pc = "prepare"
    /\ month \in 1..12
    /\ pi >= Len(events)
    /\ week_segments' = [w \in 1..Len(month_weeks) |-> <<>>]
    /\ pc' = "segment"
    /\ UNCHANGED <<year, month, events, month_weeks, prepared_events,
                   log_dropped, pi, ei, wi>>
    /\ UNCHANGED outer_vars

\* mutant of segment_week: end_col = start_col + span, one column too far
segment_week_wide(segs, ev, e, w, week) ==
    LET week_start == week[1]
        week_end == week[7]
        seg_start == Max2(ev.start_date, week_start)
        seg_end == Min2(ev.end_date, week_end)
        start_col == seg_start - week_start
        span == (seg_end - seg_start) + 1
        end_col == start_col + span
        slot == find_slot(segs[w + 1], start_col, end_col, max_slots)
    IN IF seg_start <= seg_end /\ slot # None
       THEN [segs EXCEPT ![w + 1] =
                Append(@, [start_col |-> start_col, end_col |-> end_col,
                           span |-> span, slot |-> slot, ev |-> e])]
       ELSE segs

\* mutant of segment_week: the slot search also sees the segments of the
\* week row above (the per-week slot state is not started empty)
segment_week_row_above(segs, ev, e, w, week) ==
    LET week_start == week[1]
        week_end == week[7]
        seg_start == Max2(ev.start_date, week_start)
        seg_end == Min2(ev.end_date, week_end)
        start_col == seg_start - week_start
        span == (seg_end - seg_start) + 1
        end_col == start_col + span - 1
        seen == IF w > 0 THEN segs[w] \o segs[w + 1] ELSE segs[w + 1]
        slot == find_slot(seen, start_col, end_col, max_slots)
    IN IF seg_start <= seg_end /\ slot # None
       THEN [segs EXCEPT ![w + 1] =
                Append(@, [start_col |-> start_col, end_col |-> end_col,
                           span |-> span, slot |-> slot, ev |-> e])]
       ELSE segs

\* mutant of segment_week: an event keeps the slot it has in the week row
\* above when that slot is free in this row
segment_week_sticky(segs, ev, e, w, week) ==
    LET week_start == week[1]
        week_end == week[7]
        seg_start == Max2(ev.start_date, week_start)
        seg_end == Min2(ev.end_date, week_end)
        start_col == seg_start - week_start
        span == (seg_end - seg_start) + 1
        end_col == start_col + span - 1
        above == IF w > 0
                 THEN { segs[w][k].slot : k \in { i \in 1..Len(segs[w]) :
                                                    segs[w][i].ev = e } }
                 ELSE {}
        kept == { k \in above :
                    ~slot_overlap(segs[w + 1], k, start_col, end_col) }
        slot == IF kept # {} THEN CHOOSE k \in kept : TRUE
                ELSE find_slot(segs[w + 1], start_col, end_col, max_slots)
    IN IF seg_start <= seg_end /\ slot # None
       THEN [segs EXCEPT ![w + 1] =
                Append(@, [start_col |-> start_col, end_col |-> end_col,
                           span |-> span, slot |-> slot, ev |-> e])]
       ELSE segs

\* week_segments after the body of "for wi, week in enumerate(month_weeks)"
\* (lines 245-269) has run for prepared event number e and week number w.
\* A segment's ev is the number of the prepared event it was cut from: it
\* stands for the summary and color_id the code copies from that event.
segment_week(segs, ev, e, w, week) ==
    LET week_start == week[1]
        week_end == week[7]
        seg_start == Max2(ev.start_date, week_start)
        seg_end == Min2(ev.end_date, week_end)
        start_col == seg_start - week_start
        span == (seg_end - seg_start) + 1
        end_col == start_col + span - 1
        slot == find_slot(segs[w + 1], start_col, end_col, max_slots)
    IN IF seg_start <= seg_end /\ slot # None
       THEN [segs EXCEPT ![w + 1] =
                Append(@, [start_col |-> start_col, end_col |-> end_col,
                           span |-> span, slot |-> slot, ev |-> e])]
       ELSE segs

\* the log after the same loop body: line 260 records a dropped segment
log_week(log, segs, ev, e, w, week) ==
    LET week_start == week[1]
        week_end == week[7]
        seg_start == Max2(ev.start_date, week_start)
        seg_end == Min2(ev.end_date, week_end)
        start_col == seg_start - week_start
        end_col == start_col + (seg_end - seg_start)
    IN IF seg_start <= seg_end
          /\ find_slot(segs[w + 1], start_col, end_col, max_slots) = None
       THEN Append(log, [week |-> w, ev |-> e])
       ELSE log

\* mutant of SegmentStep: "break" for "continue" when a segment is dropped,
\* the remaining weeks of the event are skipped
SegmentStep_break ==
    /\ pc = "segment"
    /\ ei < Len(prepared_events)
    /\ wi < Len(month_weeks)
    /\ week_segments' = segment_week(week_segments, prepared_events[ei + 1],
                                     ei, wi, month_weeks[wi + 1])
    /\ log_dropped' = log_week(log_dropped, week_segments,
                               prepared_events[ei + 1], ei, wi,
                               month_weeks[wi + 1])
    /\ IF wi + 1 < Len(month_weeks) /\ log_dropped' = log_dropped
       THEN wi' = wi + 1 /\ ei' = ei
       ELSE wi' = 0 /\ ei' = ei + 1
    /\ UNCHANGED <<year, month, events, pc, month_weeks, prepared_events, pi>>
    /\ UNCHANGED outer_vars

\* lines 240-269: one iteration of the inner loop over the weeks
SegmentStep ==
    /\ pc = "segment"
    /\ ei < Len(prepared_events)
    /\ wi < Len(month_weeks)
    /\ week_segments' = segment_week(week_segments, prepared_events[ei + 1],
                                     ei, wi, month_weeks[wi + 1])
    /\ log_dropped' = log_week(log_dropped, week_segments,
                               prepared_events[ei + 1], ei, wi,
                               month_weeks[wi + 1])
    /\ IF wi + 1 < Len(month_weeks)
       THEN wi' = wi + 1 /\ ei' = ei
       ELSE wi' = 0 /\ ei' = ei + 1
    /\ UNCHANGED <<year, month, events, pc, month_weeks, prepared_events, pi>>
    /\ UNCHANGED outer_vars

\* the outer loop "for ev in prepared_events" is exhausted
SegmentDone ==
    /\ pc = "segment"
    /\ ei >= Len(prepared_events)
    /\ pc' = "done"
    /\ UNCHANGED <<year, month, events, month_weeks, prepared_events,
                   week_segments, log_dropped, pi, ei, wi>>
    /\ UNCHANGED outer_vars

(***************************************************************************)
(* Calls with a month outside 1..12.  generate_month_image raises at line  *)
(* 165 (datetime(year, month, 1), ValueError) when the title is English,   *)
(* otherwise at line 211 (monthdatescalendar, IllegalMonthError); a direct *)
(* call of _prepare_events raises at line 109 (date(year, month, 1)).      *)
(* In each case the exception leaves the call: nothing is returned.        *)
(***************************************************************************)
\* mutant of MonthTextError: the month is taken modulo 12 and the call goes on
MonthTextError_wrapped ==
    /\ pc = "grid"
    /\ month \notin 1..12
    /\ TITLE_FORMAT = "english"
    /\ month_weeks' = monthdatescalendar(year, ((month - 1) % 12) + 1)
    /\ pc' = "prepare"
    /\ UNCHANGED <<year, month, events, prepared_events, week_segments,
                   log_dropped, pi, ei, wi>>
    /\ UNCHANGED outer_vars

\* lines 164-165: month_text = datetime(year, month, 1).strftime('%B') raises
MonthTextError ==
    /\ pc = "grid"
    /\ month \notin 1..12
    /\ TITLE_FORMAT = "english"
    /\ pc' = "error"
    /\ UNCHANGED <<year, month, events, month_weeks, prepared_events,
                   week_segments, log_dropped, pi, ei, wi>>
    /\ UNCHANGED outer_vars

\* lines 166-211: the title is formatted without a date, then
\* cal.monthdatescalendar(year, month) raises
MonthGridError ==
    /\ pc = "grid"
    /\ month \notin 1..12
    /\ TITLE_FORMAT # "english"
    /\ pc' = "error"
    /\ UNCHANGED <<year, month, events, month_weeks, prepared_events,
                   week_segments, log_dropped, pi, ei, wi>>
    /\ UNCHANGED outer_vars

\* line 109 of a direct _prepare_events call: date(year, month, 1) raises
PrepareMonthError ==
    /\ pc = "prepare"
    /\ month \notin 1..12
    /\ pc' = "error"
    /\ UNCHANGED <<year, month, events, month_weeks, prepared_events,
                   week_segments, log_dropped, pi, ei, wi>>
    /\ UNCHANGED outer_vars

InvalidMonths == ((1 - MonthMargin)..0) \cup (13..(12 + MonthMargin))

\* raw events with absolute dates (no date of the month can be computed)
MonthPool ==
    { RawEvent(date(2025, 9, 5), date(2025, 9, 5)),
      RawEvent(date(2025, 9, 5), date(2025, 9, 10)),
      [end |-> PyDate(date(2025, 9, 5))] }

\* generate_month_image with any month, both title formats; _prepare_events
\* called directly with an invalid month
InitMonth ==
    \E m \in InvalidMonths \cup {9} :
        \E evs \in SeqsUpTo(MonthPool, MaxMonthEvents) :
            /\ year = 2025
            /\ month = m
            /\ events = evs
            /\ pc \in (IF m \in 1..12 THEN {"grid"} ELSE {"grid", "prepare"})
            /\ month_weeks = <<>>
            /\ prepared_events = <<>>
            /\ week_segments = <<>>
            /\ log_dropped = <<>>
            /\ pi = 0
            /\ ei = 0
            /\ wi = 0
            /\ width = IMAGE_WIDTH
            /\ height = IMAGE_HEIGHT
            /\ TITLE_FORMAT \in {"english", "korean"}
            /\ DrawIdle
            /\ FirstRender
            /\ PollIdle

(***************************************************************************)
(* Several generate_month_image calls on the one generator object of the   *)
(* process (main.py line 55): each call gets its own arguments and fresh   *)
(* locals (prepared = [], line 116; month_weeks, line 211; week_segments,  *)
(* line 222); the object keeps the configuration.  history records the     *)
(* arguments and the result of every finished call.                        *)
(***************************************************************************)
\* lines 305-336 over the whole layout: the pill rectangle of every segment
pill_rects(segs, w, h, max_weeks) ==
    [r \in 1..Len(segs) |->
        [k \in 1..Len(segs[r]) |-> pill_rect(segs[r][k], r - 1, w, h, max_weeks)]]

\* what the finished call has laid out
RenderResult ==
    [segments |-> week_segments,
     pills |-> pill_rects(week_segments, width, height, Len(month_weeks))]

RenderInputs ==
    { <<ym, evs>> :
        ym \in LayoutMonths,
        evs \in { <<RawEvent(date(2025, 9, 5), date(2025, 9, 10))>>,
                  <<RawEvent(date(2025, 9, 9), date(2025, 9, 9)),
                    RawEvent(date(2025, 9, 5), date(2025, 9, 10))>>,
                  <<RawEvent(date(2026, 2, 5), date(2026, 2, 5)),
                    RawEvent(date(2026, 2, 5), date(2026, 2, 5))>> } }

InitRenders ==
    \E inp \in RenderInputs :
        /\ StartCall(inp[1][1], inp[1][2], inp[2])
        /\ width \in {IMAGE_WIDTH, 150}
        /\ height = IMAGE_HEIGHT
        /\ TITLE_FORMAT = "english"

\* mutant of NextRender: the list of normalized events is kept from call to
\* call instead of starting empty
NextRender_kept ==
    /\ pc = "done"
    /\ renders < MaxRenders
    /\ history' = Append(history, [year |-> year, month |-> month,
                                   events |-> events, result |-> RenderResult])
    /\ renders' = renders + 1
    /\ \E inp \in RenderInputs :
          /\ year' = inp[1][1]
          /\ month' = inp[1][2]
          /\ events' = inp[2]
    /\ pc' = "grid"
    /\ month_weeks' = <<>>
    /\ prepared_events' = prepared_events
    /\ week_segments' = <<>>
    /\ log_dropped' = <<>>
    /\ pi' = 0
    /\ ei' = 0
    /\ wi' = 0
    /\ UNCHANGED <<config_vars, draw_vars, poll_vars>>

\* the finished call returns and the process calls generate_month_image
\* again (main.py line 130)
NextRender ==
    /\ pc = "done"
    /\ renders < MaxRenders
    /\ history' = Append(history, [year |-> year, month |-> month,
                                   events |-> events, result |-> RenderResult])
    /\ renders' = renders + 1
    /\ \E inp \in RenderInputs :
          /\ year' = inp[1][1]
          /\ month' = inp[1][2]
          /\ events' = inp[2]
    /\ pc' = "grid"
    /\ month_weeks' = <<>>
    /\ prepared_events' = <<>>
    /\ week_segments' = <<>>
    /\ log_dropped' = <<>>
    /\ pi' = 0
    /\ ei' = 0
    /\ wi' = 0
    /\ UNCHANGED <<config_vars, draw_vars, poll_vars>>

(***************************************************************************)
(* The change-detection poller (src/main.py lines 168-189).  An etag is a  *)
(* string; get_calendar_etag (src/calendar_service.py lines 181-196)       *)
(* returns the calendar's etag, or None when the request fails or the      *)
(* answer has none.  posted counts the post_calendar_image calls made by   *)
(* check_calendar_updates.                                                 *)
(***************************************************************************)
Etags == {"a", "b", "c"}

\* Python truth value of an etag: None and the empty string are false
Truthy(etag) == etag # NoneEtag /\ etag # ""

InitPoll ==
    /\ year = 2025
    /\ month = 9
    /\ events = <<>>
    /\ pc = "poll"
    /\ month_weeks = <<>>
    /\ prepared_events = <<>>
    /\ week_segments = <<>>
    /\ log_dropped = <<>>
    /\ pi = 0
    /\ ei = 0
    /\ wi = 0
    /\ DefaultConfig
    /\ DrawIdle
    /\ FirstRender
    /\ PollIdle

\* one run of check_calendar_updates, the etag request answering tag
check_calendar_updates ==
    /\ pc = "poll"
    /\ runs < MaxRuns
    /\ \E tag \in Etags \cup {NoneEtag} :
          /\ current_etag' = tag
          /\ IF Truthy(tag) /\ Truthy(last_calendar_etag)
                 /\ tag = last_calendar_etag
             THEN UNCHANGED <<last_calendar_etag, posted>>
             ELSE /\ last_calendar_etag' = tag
                  /\ posted' = posted + 1
    /\ runs' = runs + 1
    /\ UNCHANGED <<year, month, events, pc, month_weeks, prepared_events,
                   week_segments, log_dropped, pi, ei, wi>>
    /\ UNCHANGED <<config_vars, draw_vars, render_vars>>

NextPoll == check_calendar_updates

SpecPoll == InitPoll /\ [][NextPoll]_vars

(***************************************************************************)
(* The sample events of the test script (src/test_image_generator.py,      *)
(* create_sample_events): datetime values at midnight, given as day        *)
(* offsets from the first day of the month.                                *)
(***************************************************************************)
SampleEvent(y, m, from, to) ==
    [start |-> PyDatetime(first_of_month(y, m) + from, 0),
     end |-> PyDatetime(first_of_month(y, m) + to, 0)]

create_sample_events(y, m) ==
    LET total_days == (last_of_month(y, m) - first_of_month(y, m)) + 1
    IN << SampleEvent(y, m, 2, 2),                  \* test-1
          SampleEvent(y, m, 5, 6),                  \* test-2, "2 days"
          SampleEvent(y, m, 8, 10),                 \* test-3, "3 days"
          SampleEvent(y, m, 12, 16),                \* test-4, "5 days"
          SampleEvent(y, m, 18, 24),                \* test-5, "7 days"
          SampleEvent(y, m, 3, 12),                 \* test-6, "10 days"
          SampleEvent(y, m, 0, 4),                  \* test-7
          SampleEvent(y, m, total_days - 5, total_days - 1),    \* test-8
          SampleEvent(y, m, 7, total_days - 3),     \* test-9
          SampleEvent(y, m, 5, 7),                  \* test-10
          SampleEvent(y, m, 14, 14),                \* test-11
          SampleEvent(y, m, 14, 14),                \* test-12
          SampleEvent(y, m, 14, 14),                \* test-13
          SampleEvent(y, m, 14, 14),                \* test-14
          SampleEvent(y, m, 20, 22),                \* test-15
          SampleEvent(y, m, 21, 23),                \* test-16
          SampleEvent(y, m, 25, 26),                \* test-17
          SampleEvent(y, m, 1, 15) >>               \* test-18

\* the years of the grid specification
GridYears == MinYear..(MinYear + NumYears - 1)

\* the test script's call, in any month of the years GridYears
InitSample ==
    \E y \in GridYears : \E m \in 1..12 :
        StartCall(y, m, create_sample_events(y, m)) /\ DefaultConfig

(***************************************************************************)
(* The body of "for seg in week_segments[wi]" (lines 305-352) on its own:  *)
(* segment draw_seg of week row wi is drawn on an image of the given width.     *)
(* The inputs are every column range and slot over a range of image widths *)
(* (day columns of 1..MaxDayWidth pixels and the default width), and every *)
(* title length up to MaxTitleLen at the default width.                    *)
(***************************************************************************)
Alphabet == <<"a", "b", ".", " ">>

Title(n, k) == [i \in 1..n |-> Alphabet[((i + k) % Len(Alphabet)) + 1]]

DrawTitles == { Title(n, k) : n \in 0..MaxTitleLen, k \in 1..Len(Alphabet) }

DrawWidths ==
    { 80 + 7 * dw + r : dw \in 1..MaxDayWidth, r \in {0, 5} } \cup {IMAGE_WIDTH}

DrawSegments(titles) ==
    { [start_col |-> a, end_col |-> b, slot |-> k, summary |-> t] :
        a \in 0..6, b \in 0..6, k \in 0..(max_slots - 1), t \in titles }

InitDraw ==
    /\ year = 2025
    /\ month = 9
    /\ events = <<>>
    /\ pc = "draw"
    /\ month_weeks = monthdatescalendar(2025, 9)
    /\ prepared_events = <<>>
    /\ week_segments = <<>>
    /\ log_dropped = <<>>
    /\ pi = 0
    /\ ei = 0
    /\ wi \in {0, 4}
    /\ height = IMAGE_HEIGHT
    /\ TITLE_FORMAT = "english"
    /\ FirstRender
    /\ PollIdle
    /\ pill = [left |-> 0, top |-> 0, right |-> 0, bottom |-> 0]
    /\ text = <<>>
    /\ \/ /\ width \in DrawWidths
          /\ draw_seg \in { s \in DrawSegments({Title(5, 1)}) : s.start_col <= s.end_col }
       \/ /\ width = IMAGE_WIDTH
          /\ draw_seg \in { s \in DrawSegments(DrawTitles) :
                          s.start_col = 1 /\ s.end_col = 2 /\ s.slot = 0 }

\* lines 305-352: the pill rectangle and the text of one segment
DrawSegment ==
    /\ pc = "draw"
    /\ pill' = pill_rect(draw_seg, wi, width, height, Len(month_weeks))
    /\ text' = display_text(draw_seg.summary)
    /\ pc' = "drawn"
    /\ UNCHANGED <<year, month, events, month_weeks, prepared_events,
                   week_segments, log_dropped, pi, ei, wi, draw_seg>>
    /\ UNCHANGED <<config_vars, render_vars, poll_vars>>

NextDraw == DrawSegment

SpecDraw == InitDraw /\ [][NextDraw]_vars

(***************************************************************************)
(* Other input families: every calendar month of a 28-year cycle (with the *)
(* one-event list of a single-day event on day 3), and raw events whose    *)
(* start and end range freely over a window around the month.              *)
(***************************************************************************)
InitGrid ==
    \E y \in GridYears : \E m \in 1..12 :
        /\ StartCall(y, m, << RawEvent(first_of_month(y, m) + 2,
                                       first_of_month(y, m) + 2) >>)
        /\ DefaultConfig

PrepMonths == { <<2025, 9>>, <<2025, 10>>, <<2025, 12>>, <<2024, 2>> }

PrepWindow(y, m) == (first_of_month(y, m) - Margin)..(last_of_month(y, m) + Margin)

PrepLists(y, m) ==
    LET one == { RawEvent(s, e) : s \in PrepWindow(y, m), e \in PrepWindow(y, m) }
        day3 == RawEvent(first_of_month(y, m) + 2, first_of_month(y, m) + 2)
    IN { <<a>> : a \in one } \cup { <<a, day3>> : a \in one }

InitPrep ==
    \E ym \in PrepMonths :
        \E evs \in PrepLists(ym[1], ym[2]) :
            StartCall(ym[1], ym[2], evs) /\ DefaultConfig

(***************************************************************************)
(* Event lists that mix well-formed events (date, datetime and ISO string  *)
(* values) with malformed ones, for September 2025.                        *)
(***************************************************************************)
MixedPool ==
    LET d5 == date(2025, 9, 5)
        s0905 == <<"2", "0", "2", "5", "-", "0", "9", "-", "0", "5">>
        s0906 == <<"2", "0", "2", "5", "-", "0", "9", "-", "0", "6">>
        s0931 == <<"2", "0", "2", "5", "-", "0", "9", "-", "3", "1">>
        midnight == <<"T", "0", "0", ":", "0", "0", ":", "0", "0",
                      "+", "0", "9", ":", "0", "0">>
    IN { RawEvent(d5, d5),
         [start |-> PyDatetime(d5, 10), end |-> PyDatetime(d5 + 5, 0)],
         [start |-> PyStr(s0905), end |-> PyStr(s0906 \o midnight)],
         \* 'start' missing
         [end |-> PyDate(d5)],
         \* 'end': None
         [start |-> PyDate(d5), end |-> PyNone],
         \* unsupported type
         [start |-> PyInt(20250905), end |-> PyDate(d5)],
         \* no ISO string
         [start |-> PyStr(<<"s", "o", "o", "n">>), end |-> PyStr(s0906)],
         \* ISO shape, no such day
         [start |-> PyStr(s0905), end |-> PyStr(s0931)] }

InitMixed ==
    \E evs \in SeqsUpTo(MixedPool, MaxMixed) :
        StartCall(2025, 9, evs) /\ DefaultConfig

(***************************************************************************)
(* Crowded week rows: lists of up to MaxDense events that all lie in the   *)
(* week 7..13 September 2025 (columns 0..6).                               *)
(***************************************************************************)
DensePool ==
    { RawEvent(date(2025, 9, 7), date(2025, 9, 9)),      \* columns 0..1
      RawEvent(date(2025, 9, 8), date(2025, 9, 12)),     \* columns 1..4
      RawEvent(date(2025, 9, 12), date(2025, 9, 14)),    \* columns 5..6
      RawEvent(date(2025, 9, 11), date(2025, 9, 13)) }   \* columns 4..5

InitDense ==
    \E evs \in SeqsUpTo(DensePool, MaxDense) :
        StartCall(2025, 9, evs) /\ DefaultConfig

Next ==
    \/ BuildMonthGrid
    \/ PrepareEvent
    \/ PrepareReturn
    \/ SegmentStep
    \/ SegmentDone

Spec == Init /\ [][Next]_vars

SpecGrid == InitGrid /\ [][Next]_vars

SpecPrep == InitPrep /\ [][Next]_vars

SpecMixed == InitMixed /\ [][Next]_vars

SpecDense == InitDense /\ [][Next]_vars

SpecSample == InitSample /\ [][Next]_vars

NextMonth ==
    \/ MonthTextError
    \/ MonthGridError
    \/ PrepareMonthError
    \/ BuildMonthGrid
    \/ PrepareEvent
    \/ PrepareReturn
    \/ SegmentStep
    \/ SegmentDone

SpecMonth == InitMonth /\ [][NextMonth]_vars

NextRenders ==
    \/ BuildMonthGrid
    \/ PrepareEvent
    \/ PrepareReturn
    \/ SegmentStep
    \/ SegmentDone
    \/ NextRender

SpecRenders == InitRenders /\ [][NextRenders]_vars

(***************************************************************************)
(* Properties.                                                             *)
(***************************************************************************)
\* the day columns a segment covers
Columns(seg) == seg.start_col..seg.end_col

\* the segments of week row w (1-based) covering day column c
Covering(w, c) ==
    { i \in 1..Len(week_segments[w]) : c \in Columns(week_segments[w][i]) }

\* C1: in every week row, two placed segments with the same slot never have
\* overlapping column ranges, [a,b] and [c,d] overlapping iff
\* not (b < c or a > d); holds after every placement.
C1_SameSlotDisjoint ==
    \A w \in 1..Len(week_segments) :
        \A i, j \in 1..Len(week_segments[w]) :
            LET p == week_segments[w][i]
                q == week_segments[w][j]
            IN (i < j /\ p.slot = q.slot)
                   => (p.end_col < q.start_col \/ p.start_col > q.end_col)

\* C1 witness: a finished layout with a week row holding two segments that
\* share a slot and two segments whose ranges overlap
C1_Witness ==
    /\ pc = "done"
    /\ \E w \in 1..Len(week_segments) :
          /\ \E i, j \in 1..Len(week_segments[w]) :
                i < j /\ week_segments[w][i].slot = week_segments[w][j].slot
          /\ \E i, j \in 1..Len(week_segments[w]) :
                /\ i < j
                /\ Columns(week_segments[w][i]) \cap Columns(week_segments[w][j]) # {}

\* C2 as stated: a week row never holds more than maxSlotsPerWeek (3)
\* placed segments.
C2_AtMostThreePerWeek ==
    \A w \in 1..Len(week_segments) : Len(week_segments[w]) <= 3

\* C2 amended: every placed segment lies in one of the 3 slots 0..2 and at
\* most 3 placed segments of a week row cover any single day column (a row
\* may hold more than 3 segments, since disjoint segments share a slot).
C2_AtMostThreePerDay ==
    \A w \in 1..Len(week_segments) :
        /\ \A i \in 1..Len(week_segments[w]) : week_segments[w][i].slot \in 0..2
        /\ \A c \in 0..6 : Cardinality(Covering(w, c)) <= 3

\* C2 witness: a finished layout with more than 3 segments in one week row,
\* 3 of them on the same day
C2_Witness ==
    /\ pc = "done"
    /\ \E w \in 1..Len(week_segments) :
          /\ Len(week_segments[w]) > 3
          /\ \E c \in 0..6 : Cardinality(Covering(w, c)) = 3

\* C3: every normalized event returned by _prepare_events has
\* start_date <= end_date, also when the raw end is before the raw start.
C3_NormalizedOrdered ==
    \A i \in 1..Len(prepared_events) :
        prepared_events[i].start_date <= prepared_events[i].end_date

\* the days of the target month, from the month's length
MonthDays == date(year, month, 1)..(date(year, month, 1) + DaysInMonth(year, month) - 1)

\* the days a raw event with start <= end covers: [start, inclusiveEnd]
RawDays(ev) == _to_date(ev.start)..(IF _to_date(ev.end) > _to_date(ev.start)
                                    THEN _to_date(ev.end) - 1 ELSE _to_date(ev.end))

SetMin(S) == CHOOSE x \in S : \A y \in S : x <= y
SetMax(S) == CHOOSE x \in S : \A y \in S : x >= y

\* one normalisation step on a raw event with start <= end: the event is
\* excluded exactly when none of its days lies in the month, and otherwise
\* appended with the first and the last of its days inside the month
C4_Step ==
    (pc = "prepare" /\ pi < Len(events)
        /\ _to_date(events[pi + 1].start) <= _to_date(events[pi + 1].end))
    => LET days == RawDays(events[pi + 1]) \cap MonthDays
       IN IF days = {}
          THEN prepared_events' = prepared_events
          ELSE prepared_events' =
                  Append(prepared_events,
                         [start_date |-> SetMin(days), end_date |-> SetMax(days)])

\* Scenario D: the event covering Sept 28 - Oct 2 (raw end Oct 3, exclusive)
C4_ScenarioD ==
    (pc = "done" /\ year = 2025
        /\ events[1] = RawEvent(date(2025, 9, 28), date(2025, 10, 3)))
    => /\ month = 9 => prepared_events[1] =
             [start_date |-> date(2025, 9, 28), end_date |-> date(2025, 9, 30)]
       /\ month = 10 => prepared_events[1] =
             [start_date |-> date(2025, 10, 1), end_date |-> date(2025, 10, 2)]

\* C4: for every raw event with start <= end and every month, _prepare_events
\* takes inclusiveEnd = end - 1 if end > start else end, returns the event
\* clipped to [max(start, first), min(inclusiveEnd, last)] inside the month,
\* and excludes it exactly when [start, inclusiveEnd] has no day in the
\* month; Sept 28 - Oct 2 gives [Sept 28, Sept 30] and [Oct 1, Oct 2].
C4_ClipToMonth == [][C4_Step]_vars /\ []C4_ScenarioD

\* C4 witness: Scenario D rendered for October, the clipped event returned
C4_Witness ==
    /\ pc = "done" /\ year = 2025 /\ month = 10
    /\ events[1] = RawEvent(date(2025, 9, 28), date(2025, 10, 3))
    /\ prepared_events[1] =
          [start_date |-> date(2025, 10, 1), end_date |-> date(2025, 10, 2)]

\* a Sunday, read off the ordinal (ordinal 1, 0001-01-01, is a Monday)
IsSunday(d) == d % 7 = 0

\* the grid positions <<row, column>> holding date d
GridPositions(d) ==
    { p \in (1..Len(month_weeks)) \X (1..7) : month_weeks[p[1]][p[2]] = d }

\* C5: the month grid is a sequence of week rows of exactly 7 dates, column
\* 0 a Sunday, the dates in order strictly consecutive also across rows;
\* the first row starts on or before the 1st, the last row ends on or after
\* the last day, and every day of the month appears in exactly one row.
C5_GridContiguous ==
    pc # "grid" =>
        /\ Len(month_weeks) >= 1
        /\ \A w \in 1..Len(month_weeks) :
              /\ DOMAIN month_weeks[w] = 1..7
              /\ IsSunday(month_weeks[w][1])
              /\ \A c \in 1..6 : month_weeks[w][c + 1] = month_weeks[w][c] + 1
              /\ w < Len(month_weeks) =>
                    month_weeks[w + 1][1] = month_weeks[w][7] + 1
        /\ month_weeks[1][1] <= SetMin(MonthDays)
        /\ month_weeks[Len(month_weeks)][7] >= SetMax(MonthDays)
        /\ \A d \in MonthDays : Cardinality(GridPositions(d)) = 1

\* every month length 28..31 occurs with every weekday of the 1st among
\* the months of the grid specification
AllMonthShapes ==
    \A len \in 28..31 : \A wd \in 0..6 :
        \E y \in GridYears : \E m \in 1..12 :
            DaysInMonth(y, m) = len /\ weekday(date(y, m, 1)) = wd

\* C5 witness: a built grid of 6 rows whose 1st is in the last column, all
\* month shapes being among the inputs
C5_Witness ==
    /\ pc = "done"
    /\ Len(month_weeks) = 6
    /\ month_weeks[1][7] = date(year, month, 1)
    /\ AllMonthShapes

\* C6 as stated: the grid has 4, 5 or 6 week rows and never exactly 4.
C6_RowsNeverFour ==
    pc # "grid" => (Len(month_weeks) \in {4, 5, 6} /\ Len(month_weeks) # 4)

\* C6 amended: the grid has 4, 5 or 6 week rows, and exactly 4 precisely
\* for a 28-day month (a non-leap February) whose 1st is a Sunday.
C6_RowsFourToSix ==
    pc # "grid" =>
        /\ Len(month_weeks) \in {4, 5, 6}
        /\ Len(month_weeks) = 4 <=>
              (DaysInMonth(year, month) = 28 /\ IsSunday(date(year, month, 1)))

\* C6 witness: February 2026 rendered, a grid of exactly 4 rows
C6_Witness ==
    /\ pc = "done" /\ year = 2026 /\ month = 2
    /\ Len(month_weeks) = 4

\* two segments have a day column in common
Intersect(p, q) == Columns(p) \cap Columns(q) # {}

\* a step that places a segment in week row w appends it to the row's
\* list, in a slot k such that every slot j < k held, before the step, a
\* segment overlapping the new one and slot k held none
C7_Step ==
    \A w \in 1..Len(week_segments) :
        Len(week_segments'[w]) > Len(week_segments[w]) =>
            LET old == week_segments[w]
                new == week_segments'[w][Len(week_segments'[w])]
            IN /\ week_segments'[w] = Append(old, new)
               /\ new.slot \in 0..2
               /\ \A j \in 0..(new.slot - 1) :
                     \E i \in 1..Len(old) :
                         old[i].slot = j /\ Intersect(old[i], new)
               /\ \A i \in 1..Len(old) :
                     old[i].slot = new.slot => ~Intersect(old[i], new)

\* C7: slot search is first-fit: whenever a segment is placed in slot k of
\* a week, every slot j < k of that week holds, at the moment of placement,
\* a segment overlapping the new segment's range, and slot k holds none.
C7_FirstFit == [][C7_Step]_vars

\* C7 witness: a finished layout where a segment went to slot 2 and a later
\* segment of the same week row to slot 0
C7_Witness ==
    /\ pc = "done"
    /\ \E w \in 1..Len(week_segments) :
          \E i, j \in 1..Len(week_segments[w]) :
              /\ i < j
              /\ week_segments[w][i].slot = 2
              /\ week_segments[w][j].slot = 0

\* the days of prepared event number e (0-based) that lie in week row
\* number w (0-based), and their day columns
DaysInWeek(e, w) ==
    (prepared_events[e + 1].start_date..prepared_events[e + 1].end_date)
        \cap (month_weeks[w + 1][1]..month_weeks[w + 1][7])

ColumnsInWeek(e, w) == { d - month_weeks[w + 1][1] : d \in DaysInWeek(e, w) }

\* the indices of the segments of week row w cut from prepared event e
SegmentsOf(e, w) ==
    { k \in 1..Len(week_segments[w + 1]) : week_segments[w + 1][k].ev = e }

\* every slot of week row w holds a segment, among those of list segs,
\* that covers one of the columns cols
AllSlotsBlocked(segs, cols) ==
    \A k \in 0..2 :
        \E i \in 1..Len(segs) : segs[i].slot = k /\ Columns(segs[i]) \cap cols # {}

\* one iteration of the segment loop: the segment of the event in the week
\* is dropped exactly when all 3 slots are blocked; a drop is logged, leaves
\* the placed segments as they are, raises nothing and the loop goes on to
\* the next week row of the same event; otherwise the segment is placed
C8_Step ==
    (pc = "segment" /\ ei < Len(prepared_events)) =>
        LET cols == ColumnsInWeek(ei, wi)
            dropped == log_dropped' # log_dropped
        IN /\ dropped <=>
                 (cols # {} /\ AllSlotsBlocked(week_segments[wi + 1], cols))
           /\ dropped =>
                 /\ log_dropped' = Append(log_dropped, [week |-> wi, ev |-> ei])
                 /\ week_segments' = week_segments
                 /\ pc' = "segment"
                 /\ <<ei', wi'>> = IF wi + 1 < Len(month_weeks)
                                   THEN <<ei, wi + 1>> ELSE <<ei + 1, 0>>
           /\ (cols # {} /\ ~dropped) =>
                 Len(week_segments'[wi + 1]) = Len(week_segments[wi + 1]) + 1

\* in the finished layout an event has a segment in a week row it spans
\* exactly when not all 3 slots of that row are blocked by segments of
\* earlier events: drops in other rows play no part
C8_Final ==
    pc = "done" =>
        \A e \in 0..(Len(prepared_events) - 1) :
            \A w \in 0..(Len(month_weeks) - 1) :
                LET earlier == SelectSeq(week_segments[w + 1],
                                         LAMBDA seg : seg.ev < e)
                IN ColumnsInWeek(e, w) # {} =>
                      (SegmentsOf(e, w) # {}
                           <=> ~AllSlotsBlocked(earlier, ColumnsInWeek(e, w)))

\* C8: a segment of an event in a week is dropped if and only if each of
\* the 3 slots of that week already holds a segment overlapping its column
\* range; the drop raises no error, leaves the week's placed segments
\* unchanged and does not keep the event from being placed in the other
\* week rows it spans.
C8_DropIffAllBlocked == [][C8_Step]_vars /\ []C8_Final

\* C8 witness: a finished layout where an event was dropped in one week row
\* and placed in another
C8_Witness ==
    /\ pc = "done"
    /\ \E k \in 1..Len(log_dropped) :
          \E w \in 0..(Len(month_weeks) - 1) :
              /\ w # log_dropped[k].week
              /\ SegmentsOf(log_dropped[k].ev, w) # {}

\* the event list is n >= 1 single-day events, all on one date of the month
SameDayEvents ==
    /\ Len(events) >= 1
    /\ _to_date(events[1].start) \in MonthDays
    /\ \A i \in 1..Len(events) :
          events[i].start = events[1].start /\ events[i].end = events[1].start

\* the segments <<week row, index>> (1-based) cut from prepared event e
AllSegmentsOf(e) ==
    { p \in (1..Len(week_segments)) \X (1..Len(prepared_events)) :
        /\ p[2] <= Len(week_segments[p[1]])
        /\ week_segments[p[1]][p[2]].ev = e }

\* C9: of n single-day events on the same in-month date, the i-th in input
\* order (0-based) yields exactly one segment, of one column, on that date
\* and in slot i, when i < 3, and no segment when i >= 3.
C9_SameDaySlots ==
    (pc = "done" /\ SameDayEvents) =>
        \A i \in 0..(Len(events) - 1) :
            IF i < 3
            THEN /\ Cardinality(AllSegmentsOf(i)) = 1
                 /\ \A p \in AllSegmentsOf(i) :
                       LET seg == week_segments[p[1]][p[2]]
                       IN /\ seg.start_col = seg.end_col
                          /\ seg.slot = i
                          /\ month_weeks[p[1]][seg.start_col + 1] = _to_date(events[1].start)
            ELSE AllSegmentsOf(i) = {}

\* C9 witness: four single-day events on one date laid out, the 4th dropped
C9_Witness ==
    /\ pc = "done"
    /\ SameDayEvents
    /\ Len(events) = 4
    /\ Len(log_dropped) = 1 /\ log_dropped[1].ev = 3

\* the dates a segment of week row w (0-based) covers
SegmentDays(w, seg) == { month_weeks[w + 1][c + 1] : c \in Columns(seg) }

\* a drop of prepared event e was logged
Dropped(e) == \E k \in 1..Len(log_dropped) : log_dropped[k].ev = e

\* Scenario B: a raw event of days 5-6 with exclusive end day 7 is
\* normalized to end on day 6 (the layout inputs all overlap the month, so
\* prepared event i is raw event i)
C10_ScenarioB ==
    (pc = "done" /\ Len(prepared_events) = Len(events)) =>
        \A i \in 1..Len(events) :
            events[i] = RawEvent(date(year, month, 5), date(year, month, 7))
                => prepared_events[i] = [start_date |-> date(year, month, 5),
                                         end_date |-> date(year, month, 6)]

\* C10: a normalized event with start_date <= end_date has at most one
\* segment in each week row and none in a row it does not overlap; a placed
\* segment has 0 <= start_col <= end_col <= 6 and covers exactly the days
\* max(start_date, weekStart) .. min(end_date, weekEnd). When none of its
\* segments is dropped it has exactly one segment per week row it touches
\* and the segments' days together are exactly [start_date, end_date].
C10_SegmentsCoverEvent ==
    /\ pc \in {"segment", "done"} =>
          \A e \in 0..(Len(prepared_events) - 1) :
              LET ev == prepared_events[e + 1]
              IN ev.start_date <= ev.end_date =>
                  /\ \A w \in 0..(Len(month_weeks) - 1) :
                        /\ Cardinality(SegmentsOf(e, w)) <= 1
                        /\ DaysInWeek(e, w) = {} => SegmentsOf(e, w) = {}
                        /\ \A k \in SegmentsOf(e, w) :
                              LET seg == week_segments[w + 1][k]
                              IN /\ 0 <= seg.start_col
                                 /\ seg.start_col <= seg.end_col
                                 /\ seg.end_col <= 6
                                 /\ SegmentDays(w, seg) =
                                       Max2(ev.start_date, month_weeks[w + 1][1])
                                         ..Min2(ev.end_date, month_weeks[w + 1][7])
                  /\ (pc = "done" /\ ~Dropped(e)) =>
                        /\ \A w \in 0..(Len(month_weeks) - 1) :
                              DaysInWeek(e, w) # {}
                                  => Cardinality(SegmentsOf(e, w)) = 1
                        /\ UNION { SegmentDays(p[1] - 1, week_segments[p[1]][p[2]]) :
                                      p \in AllSegmentsOf(e) }
                              = ev.start_date..ev.end_date
    /\ C10_ScenarioB

\* C10 witness: a finished layout where an event spanning two week rows has
\* a segment in each, a days 5-6 event is placed and another event is dropped
C10_Witness ==
    /\ pc = "done"
    /\ \E e \in 0..(Len(prepared_events) - 1) :
          ~Dropped(e) /\ Cardinality(AllSegmentsOf(e)) = 2
    /\ \E i \in 1..Len(events) :
          /\ events[i] = RawEvent(date(year, month, 5), date(year, month, 7))
          /\ ~Dropped(i - 1)
    /\ Len(log_dropped) > 0

\* C11: the displayed text of a drawn segment has at most 20 characters; a
\* title of at most 20 characters is displayed unchanged, a longer one as
\* its first 17 characters followed by three dots, 20 characters in all.
C11_TitleTruncated ==
    pc = "drawn" =>
        LET summary == draw_seg.summary
        IN /\ Len(text) <= 20
           /\ Len(summary) <= 20 => text = summary
           /\ Len(summary) > 20 =>
                 /\ Len(text) = 20
                 /\ \A i \in 1..17 : text[i] = summary[i]
                 /\ \A i \in 18..20 : text[i] = "."

\* C11 witness: a title longer than 20 characters has been drawn cut, and
\* the cut dropped a character that was not a dot
C11_Witness ==
    /\ pc = "drawn"
    /\ Len(draw_seg.summary) > 20
    /\ draw_seg.summary[18] # "."
    /\ Len(text) = 20

\* the pill edges before the minimum-width test (lines 317-318)
RawLeft == grid_x + draw_seg.start_col * day_width(width) + 6

RawRight == grid_x + (draw_seg.end_col + 1) * day_width(width) - 6

\* the minimum-width branch (line 333) was taken
FloorApplies == RawRight - RawLeft < 40

\* C17 as stated: for every positive day-column width the floor changes the
\* pill only of a single-day segment, a segment of two or more columns
\* keeps its computed edges; when the floor applies the width is 40.
C17_FloorOnlySingleDay ==
    pc = "drawn" =>
        /\ draw_seg.start_col # draw_seg.end_col =>
              pill.left = RawLeft /\ pill.right = RawRight
        /\ FloorApplies => pill.right - pill.left = 40

\* C17 amended: the floor changes the pill exactly when the computed width
\* is below 40, which for a day column of at least 26 pixels happens only
\* to single-day segments; a segment of two or more columns keeps its
\* computed edges whenever the day column is at least 26 pixels wide; when
\* the floor applies the width is 40.
C17_FloorOnlyWhenNarrow ==
    pc = "drawn" =>
        /\ (draw_seg.start_col # draw_seg.end_col /\ day_width(width) >= 26) =>
              pill.left = RawLeft /\ pill.right = RawRight
        /\ ~FloorApplies => pill.left = RawLeft /\ pill.right = RawRight
        /\ FloorApplies => pill.right - pill.left = 40
        /\ (FloorApplies /\ draw_seg.start_col # draw_seg.end_col) =>
              day_width(width) < 26

\* C17 witness: the floor has widened the pill of a single-day segment
C17_Witness ==
    /\ pc = "drawn"
    /\ draw_seg.start_col = draw_seg.end_col
    /\ FloorApplies
    /\ pill.left < RawLeft
    /\ pill.right - pill.left = 40

\* the raw event is skipped by the except branch of lines 119-124
Malformed(ev) ==
    to_date_raises(Get(ev, "start")) \/ to_date_raises(Get(ev, "end"))

WithoutMalformed(evs) == SelectSeq(evs, LAMBDA ev : ~Malformed(ev))

\* _prepare_events run on the whole list evs
RECURSIVE PrepareList(_, _, _, _, _)
PrepareList(prepared, evs, i, y, m) ==
    IF i > Len(evs) THEN prepared
    ELSE PrepareList(prepare_one(prepared, evs[i], y, m), evs, i + 1, y, m)

\* the two loops of lines 240-269 run from prepared event e, week w
RECURSIVE LayoutList(_, _, _, _, _)
LayoutList(segs, prepared, weeks, e, w) ==
    IF e >= Len(prepared) THEN segs
    ELSE IF w >= Len(weeks) THEN LayoutList(segs, prepared, weeks, e + 1, 0)
    ELSE LayoutList(segment_week(segs, prepared[e + 1], e, w, weeks[w + 1]),
                    prepared, weeks, e, w + 1)

\* C12: a malformed event (start or end missing, of an unsupported type or
\* an unparseable string) is skipped: the normalized events and the segment
\* layout of a list are those of the same list without its malformed events.
C12_MalformedSkipped ==
    LET clean == PrepareList(<<>>, WithoutMalformed(events), 1, year, month)
    IN /\ pc \in {"segment", "done"} => prepared_events = clean
       /\ pc = "done" =>
             week_segments =
                 LayoutList([w \in 1..Len(month_weeks) |-> <<>>], clean,
                            month_weeks, 0, 0)

\* C12 witness: a finished layout of a list in which a malformed event
\* stands between two well-formed events that were both normalized
C12_Witness ==
    /\ pc = "done"
    /\ Len(events) = 3
    /\ ~Malformed(events[1]) /\ Malformed(events[2]) /\ ~Malformed(events[3])
    /\ events[3].start.type = "str"
    /\ Len(prepared_events) = 2
    /\ \E w \in 1..Len(week_segments) : Len(week_segments[w]) = 2

\* C13: for a month outside 1..12 the call ends in an error and returns no
\* grid, no normalized events and no segments, whatever the event list and
\* the title format: the only step it can take is the one that raises, it
\* can always take it, and nothing has been computed before or after it.
C13_InvalidMonthRaises ==
    /\ [][month \notin 1..12 => pc' = "error"]_vars
    /\ [](month \notin 1..12 =>
            /\ pc \in {"grid", "prepare", "error"}
            /\ pc # "error" =>
                  ENABLED (MonthTextError \/ MonthGridError \/ PrepareMonthError)
            /\ month_weeks = <<>>
            /\ prepared_events = <<>>
            /\ week_segments = <<>>)

\* C13 witness: month 13 with a Korean title and a non-empty event list has
\* ended in the error
C13_Witness ==
    /\ month = 13
    /\ TITLE_FORMAT = "korean"
    /\ Len(events) > 0
    /\ pc = "error"

\* C14: a call with the same year, month and event list as an earlier call
\* of the same process (same configuration) yields the same segment lists
\* and the same pixel rectangles, whatever calls were made in between.
C14_RendersIndependent ==
    pc = "done" =>
        \A i \in 1..Len(history) :
            (history[i].year = year /\ history[i].month = month
                 /\ history[i].events = events)
                => history[i].result = RenderResult

\* C14 witness: the third call has finished with the arguments of the first
\* and a non-empty layout, the call in between had other arguments and
\* another result
C14_Witness ==
    /\ pc = "done"
    /\ Len(history) = 2
    /\ history[1].year = year /\ history[1].month = month
    /\ history[1].events = events
    /\ history[2].events # events
    /\ history[2].result # RenderResult
    /\ \E w \in 1..Len(week_segments) : Len(week_segments[w]) > 0

(***************************************************************************)
(* The per-week procedure of the specified layout: for one week row,       *)
(* starting from an empty row, the events are taken in input order; an     *)
(* event overlapping the row gets the lowest slot in which no segment      *)
(* already placed in this row overlaps its column range, and is dropped    *)
(* from the row when there is none.                                        *)
(***************************************************************************)
PerWeekPlace(placed, ev, e, week) ==
    LET segStart == Max2(ev.start_date, week[1])
        segEnd == Min2(ev.end_date, week[7])
        startColumn == segStart - week[1]
        endColumn == startColumn + (segEnd - segStart)
        eligible == { k \in 0..2 :
                        \A i \in 1..Len(placed) :
                            placed[i].slot = k =>
                                (endColumn < placed[i].start_col
                                     \/ startColumn > placed[i].end_col) }
    IN IF segStart > segEnd \/ eligible = {} THEN placed
       ELSE Append(placed, [start_col |-> startColumn, end_col |-> endColumn,
                            span |-> endColumn - startColumn + 1,
                            slot |-> SetMin(eligible), ev |-> e])

\* the row after the events number e .. n - 1 have been taken in order
RECURSIVE PerWeekRow(_, _, _, _, _)
PerWeekRow(placed, prepared, e, n, week) ==
    IF e >= n THEN placed
    ELSE PerWeekRow(PerWeekPlace(placed, prepared[e + 1], e, week),
                    prepared, e + 1, n, week)

\* C15: the layout of the code's loops (events outside, weeks inside) is
\* that of the per-week procedure: at every point of the loops each week
\* row holds what the procedure yields for that row alone from the events
\* taken so far in input order; so a row depends only on the events'
\* overlaps with it and on input order, never on other rows or on a
\* sorting of the events.
C15_PerWeekProcedure ==
    pc \in {"segment", "done"} =>
        \A w \in 0..(Len(month_weeks) - 1) :
            week_segments[w + 1] =
                PerWeekRow(<<>>, prepared_events, 0,
                           IF pc = "segment" /\ w < wi THEN ei + 1 ELSE ei,
                           month_weeks[w + 1])

\* C15 witness: a finished layout with an event in two week rows and a row
\* where an event placed earlier starts later than the one placed after it
\* and overlaps it
C15_Witness ==
    /\ pc = "done"
    /\ \E e \in 0..(Len(prepared_events) - 1) : Cardinality(AllSegmentsOf(e)) = 2
    /\ \E w \in 1..Len(week_segments) :
          \E i, j \in 1..Len(week_segments[w]) :
              /\ i < j
              /\ week_segments[w][i].start_col > week_segments[w][j].start_col
              /\ week_segments[w][i].slot = 0
              /\ week_segments[w][j].slot = 1

\* C16: slots are given row by row with no continuity across week rows: the
\* slot of an event's segment in a row is the lowest slot free of
\* overlapping segments of earlier events in that row, whatever slot the
\* event has, or whether it was dropped, in its other rows.
C16_NoSlotContinuity ==
    pc \in {"segment", "done"} =>
        \A w \in 0..(Len(week_segments) - 1) :
            \A k \in 1..Len(week_segments[w + 1]) :
                LET seg == week_segments[w + 1][k]
                    free == { s \in 0..2 :
                                \A i \in 1..(k - 1) :
                                    week_segments[w + 1][i].slot = s =>
                                        ~Intersect(week_segments[w + 1][i], seg) }
                IN /\ \A i \in 1..(k - 1) : week_segments[w + 1][i].ev < seg.ev
                   /\ seg.slot = SetMin(free)

\* C16 witness: a finished layout in which one event has different slots in
\* two week rows and one event is placed in one week row and dropped in
\* another
C16_Witness ==
    /\ pc = "done"
    /\ \E e \in 0..(Len(prepared_events) - 1) :
          \E p, q \in AllSegmentsOf(e) :
              /\ p[1] # q[1]
              /\ week_segments[p[1]][p[2]].slot # week_segments[q[1]][q[2]].slot
    /\ \E e \in 0..(Len(prepared_events) - 1) :
          \E w1, w2 \in 0..(Len(month_weeks) - 1) :
              /\ SegmentsOf(e, w1) # {}
              /\ ColumnsInWeek(e, w2) # {}
              /\ SegmentsOf(e, w2) = {}

\* C20: in every week row at most 3 placed segments cover any day column
\* 0..6 and segments covering a common column have pairwise different
\* slots in 0..2; a dropped segment, even one all of whose columns are
\* covered by fewer than 3 placed segments, had each of the 3 slots blocked
\* by a segment of an earlier event overlapping its column range.
C20_ColumnsAndDrops ==
    /\ \A w \in 1..Len(week_segments) :
          \A c \in 0..6 :
              /\ Cardinality(Covering(w, c)) <= 3
              /\ \A i, j \in Covering(w, c) :
                    /\ week_segments[w][i].slot \in 0..2
                    /\ i # j => week_segments[w][i].slot # week_segments[w][j].slot
    /\ \A d \in 1..Len(log_dropped) :
          LET w == log_dropped[d].week
              e == log_dropped[d].ev
          IN \A s \in 0..2 :
                 \E i \in 1..Len(week_segments[w + 1]) :
                     /\ week_segments[w + 1][i].ev < e
                     /\ week_segments[w + 1][i].slot = s
                     /\ Columns(week_segments[w + 1][i]) \cap ColumnsInWeek(e, w) # {}

\* C20 witness: a segment was dropped although each of its columns is
\* covered by fewer than 3 placed segments
C20_Witness ==
    /\ pc = "done"
    /\ \E d \in 1..Len(log_dropped) :
          \A c \in ColumnsInWeek(log_dropped[d].ev, log_dropped[d].week) :
              Cardinality(Covering(log_dropped[d].week + 1, c)) < 3

\* C18: a run of the poller posts a new image if and only if the etag it
\* observes differs from the one recorded by the previous run (None when
\* that run could not fetch one, or before the first run); a run observing
\* the recorded etag posts nothing and leaves last_calendar_etag as it is,
\* also when the etag cannot be fetched.
C18_PostsIffTagChanged ==
    [][runs' = runs + 1 =>
          /\ (posted' # posted) <=> (current_etag' # last_calendar_etag)
          /\ current_etag' = last_calendar_etag =>
                (posted' = posted /\ last_calendar_etag' = last_calendar_etag)]_vars

\* the labelled multi-day sample events: <<position in the list, days>>
LabelledSamples == { <<2, 2>>, <<3, 3>>, <<4, 5>>, <<5, 7>>, <<6, 10>> }

\* C19: each sample event of the test script given as start = S,
\* end = S + (N - 1) days and labelled an N-day event is normalized to the
\* N days [S, S + N - 1].
C19_SampleDays ==
    pc \in {"segment", "done"} =>
        \A l \in LabelledSamples :
            LET S == _to_date(events[l[1]].start)
                N == l[2]
            IN /\ _to_date(events[l[1]].end) = S + (N - 1)
               /\ prepared_events[l[1]] =
                      [start_date |-> S, end_date |-> S + N - 1]

====
